---- MODULE Spec2Model ----
(***************************************************************************)
(* Model of the lute graph connector (connector/graph/graph):              *)
(*   - lute.py  LuteClient.stream_events: the cursor-acknowledged          *)
(*     bidirectional event stream (reply reader, request generator,        *)
(*     consumer);                                                          *)
(*   - main.py  run / update_graph: the ingestion loop and the sequence of *)
(*     MERGE statements it runs against the graph store;                   *)
(*   - db.py    update_graph (second copy, primary genre weight 3) and     *)
(*     generate_album_embeddings;                                          *)
(*   - api.py   sync_album_embeddings.                                     *)
(***************************************************************************)
EXTENDS Integers, Sequences, FiniteSets, Bags, TLC

VARIABLES
    graph,      \* the graph store: [nodes: set of nodes, edges: bag of relationships]
    impl,       \* which copy of update_graph runs: "main" (main.py) or "db" (db.py)
    ug,         \* the running update_graph call: state, next statement, albums, replay flag
    snap,       \* graph as it was when the running update_graph call started
    server,     \* how the Stream RPC stands: "open", "eof" (ended by the
                \* server) or "error"
    nreplies,   \* replies the server has sent; the k-th reply carries cursor k
    nread,      \* replies stream_events has read
    cur,        \* cursor of the reply stream_events holds at its yield (0: none)
    items,      \* the items yielded to run(), until the body has classified them
    requests,   \* requests written on the stream, each with the number of
                \* batches the caller had finished when it was written
    queue,      \* the asyncio.Queue of stream_events
    sender,     \* position of request_generator: "first", "get" or "sleep"
    loop,       \* position of run(): "next", "body", "updating", "leaving",
                \* "exited" or "returned"
    exc,        \* the exception leaving run(): "none", "graph" or "transport"
    call,       \* the Stream RPC as the client sees it: "active" or "finished"
    resumed,    \* batches after which run() has asked for the next one
    lockstep,   \* the server has sent every reply in answer to a request
    channelOpen,\* the RPC channel of the LuteClient is open
    gdsOpen,    \* the graph-store connection is open
    cancelReq,  \* cursor of the batch in flight when cancellation of the task
                \* running run() was requested and is not yet raised (0: none)
    projections,\* the named projections the graph store holds (their ids)
    clock,      \* int(time()): the unix time in seconds
    req,        \* the running POST /embeddings/albums/sync request
    cli         \* a LuteClient and the method call running on it

graphVars == <<graph, impl, ug, snap>>

streamVars == <<server, nreplies, nread, cur, items, requests, queue, sender, loop,
                exc, call, resumed, lockstep, channelOpen, gdsOpen, cancelReq>>

embedVars == <<projections, clock, req>>

vars == <<graphVars, streamVars, embedVars, cli>>

----------------------------------------------------------------------------
(* Bounds of the model                                                     *)

MaxBatchLen == 2

\* Replies the server sends on one stream.
MaxReplies == 3

\* Items in one reply.
MaxItems == 2

\* Seconds of the clock followed.
MaxClock == 2

\* Full upload batches in the list of embeddings.
MaxFullBatches == 2

\* Subscribers in the monitor the server returns.
MaxSubscribers == 2

----------------------------------------------------------------------------
(* Program constants                                                       *)

\* main.py:204  MERGE (album)-[:GENRE {weight: 2}]->(genre)
MainPrimaryGenreWeight == 2
\* db.py:180    MERGE (album)-[:GENRE {weight: 3}]->(genre)
DbPrimaryGenreWeight == 3
\* main.py:220 / db.py:196  MERGE (album)-[:GENRE {weight: 1}]->(genre)
SecondaryGenreWeight == 1
\* the number of gds.run_cypher statements of one update_graph call
StatementCount == 11
\* the first five of them merge nodes, the other six relationships
NodeStatementCount == 5
\* models.py:7-10  the defaults of AlbumRelationWeights
DefaultAlbumArtist == 4
DefaultCredited == 2
DefaultDescriptor == 1
DefaultLanguage == 1
\* api.py:46  batch_size = 1500
batch_size == 1500

----------------------------------------------------------------------------
(* Input data: (file_name, ParsedAlbum) pairs as run() builds them.        *)

Artist(fn, nm) == [file_name |-> fn, name |-> nm]

Credit(a, rs) == [artist |-> a, roles |-> rs]

\* S1/S3/S5 of the scenarios in one album: a credit with two roles, the same
\* genre as primary and secondary.
Album1 ==
    [file_name |-> "al1",
     album |-> [name |-> "Illmatic",
                artists |-> <<Artist("ar1", "Nas")>>,
                credits |-> <<Credit(Artist("ar2", "DJ Premier"), <<"producer", "mixer">>)>>,
                primary_genres |-> <<"g1">>,
                secondary_genres |-> <<"g1">>,
                descriptors |-> <<"d1">>,
                languages |-> <<"l1">>]]

\* The same album and artists under other display names; a role repeated
\* within a credit and across two credits of the same artist.
Album2 ==
    [file_name |-> "al1",
     album |-> [name |-> "ILLMATIC",
                artists |-> <<Artist("ar1", "NASIR")>>,
                credits |-> <<Credit(Artist("ar2", "Premo"), <<"producer", "producer">>),
                              Credit(Artist("ar2", "Primo"), <<"mixer", "producer">>)>>,
                primary_genres |-> <<"g2">>,
                secondary_genres |-> <<"g1">>,
                descriptors |-> <<>>,
                languages |-> <<"l1">>]]

\* A second album: an artist first credited, then album artist of the same
\* batch entry; two album artists; no secondary genre.
Album3 ==
    [file_name |-> "al2",
     album |-> [name |-> "Stillmatic",
                artists |-> <<Artist("ar2", "Premier"), Artist("ar1", "Nas")>>,
                credits |-> <<Credit(Artist("ar3", "Large Professor"), <<"producer">>),
                              Credit(Artist("ar1", "Nas"), <<>>)>>,
                primary_genres |-> <<"g1", "g2">>,
                secondary_genres |-> <<>>,
                descriptors |-> <<"d1", "d1">>,
                languages |-> <<>>]]

AlbumPool == {Album1, Album2, Album3}

RECURSIVE SeqsUpTo(_, _)
\* All non-empty sequences over S of length at most n.
SeqsUpTo(S, n) ==
    IF n = 0 THEN {}
    ELSE LET shorter == SeqsUpTo(S, n - 1)
         IN  {<<x>> : x \in S} \cup shorter
             \cup {Append(s, x) : s \in shorter, x \in S}

\* The batches update_graph is called with (run() calls it only with a
\* non-empty parsed_albums list).
Batches == SeqsUpTo(AlbumPool, MaxBatchLen)

----------------------------------------------------------------------------
(* update_graph: collection of the distinct nodes of the batch             *)

RECURSIVE FlatMap(_, _)
\* [y for x in s for y in F(x)]: the concatenation of F over s.
FlatMap(F(_), s) ==
    IF s = <<>> THEN <<>> ELSE F(Head(s)) \o FlatMap(F, Tail(s))

SeqMap(F(_), s) == [i \in 1..Len(s) |-> F(s[i])]

Range(s) == {s[i] : i \in 1..Len(s)}

DictHas(d, k) == \E i \in 1..Len(d) : d[i].file_name = k

\* artists[k] = v on a Python dict: an existing key keeps its position and
\* takes the new value, a new key is appended.
DictSet(d, k, v) ==
    IF DictHas(d, k)
    THEN [i \in 1..Len(d) |-> IF d[i].file_name = k THEN Artist(k, v) ELSE d[i]]
    ELSE Append(d, Artist(k, v))

\* if k not in artists: artists[k] = v
DictSetDefault(d, k, v) == IF DictHas(d, k) THEN d ELSE Append(d, Artist(k, v))

RECURSIVE CollectAlbumArtists(_, _)
CollectAlbumArtists(d, as) ==
    IF as = <<>> THEN d
    ELSE CollectAlbumArtists(DictSet(d, Head(as).file_name, Head(as).name), Tail(as))

RECURSIVE CollectCreditArtists(_, _)
CollectCreditArtists(d, cs) ==
    IF cs = <<>> THEN d
    ELSE CollectCreditArtists(
             DictSetDefault(d, Head(cs).artist.file_name, Head(cs).artist.name),
             Tail(cs))

RECURSIVE CollectArtists(_, _)
\* The artists dict after the loop over the albums of the batch.
CollectArtists(d, albums) ==
    IF albums = <<>> THEN d
    ELSE LET a == Head(albums).album
         IN  CollectArtists(
                 CollectCreditArtists(CollectAlbumArtists(d, a.artists), a.credits),
                 Tail(albums))

artists(albums) == CollectArtists(<<>>, albums)

genres(albums) ==
    UNION {Range(albums[i].album.primary_genres)
             \cup Range(albums[i].album.secondary_genres) : i \in 1..Len(albums)}

descriptors(albums) ==
    UNION {Range(albums[i].album.descriptors) : i \in 1..Len(albums)}

language(albums) ==
    UNION {Range(albums[i].album.languages) : i \in 1..Len(albums)}

RECURSIVE list(_)
\* list(some_set): the elements in some order.
list(S) ==
    IF S = {} THEN <<>>
    ELSE LET x == CHOOSE y \in S : TRUE IN <<x>> \o list(S \ {x})

----------------------------------------------------------------------------
(* The graph store: MERGE / MATCH as the Cypher statements use them        *)

Node(kind, key, name) == [kind |-> kind, key |-> key, name |-> name]

NodeRef(kind, key) == [kind |-> kind, key |-> key]

\* A relationship: its type, endpoints and the property the MERGE pattern
\* names (role of CREDITED, weight of GENRE; "" and 0 when it has none).
Rel(type, src, dst, role, weight) ==
    [type |-> type, src |-> src, dst |-> dst, role |-> role, weight |-> weight]

EmptyGraph == [nodes |-> {}, edges |-> EmptyBag]

\* MATCH (n:kind {key}): the pattern binds when such a node exists.
MatchNode(G, kind, key) == \E n \in G.nodes : n.kind = kind /\ n.key = key

\* What a MERGE of a node that overwrites the name of a matched node would do.
MergeNodeOverwriting(G, kind, key, name) ==
    [G EXCEPT !.nodes =
        {n \in @ : ~(n.kind = kind /\ n.key = key)} \cup {Node(kind, key, name)}]

\* MERGE (n:kind {key}) ON CREATE SET n.name = name
MergeNode(G, kind, key, name) ==
    IF MatchNode(G, kind, key) THEN G
    ELSE [G EXCEPT !.nodes = @ \cup {Node(kind, key, name)}]

\* What CREATE instead of MERGE would do: one more relationship per row.
CreateRel(G, r) == [G EXCEPT !.edges = @ (+) SetToBag({r})]

\* What a MERGE whose pattern leaves out the property would do: any
\* relationship of the type between the endpoints matches.
MergeRelAnyProperty(G, r) ==
    IF \E x \in BagToSet(G.edges) : x.type = r.type /\ x.src = r.src /\ x.dst = r.dst
    THEN G
    ELSE [G EXCEPT !.edges = @ (+) SetToBag({r})]

\* MERGE (src)-[:type {prop}]->(dst) on bound endpoints: matches an existing
\* relationship with the same type, endpoints and property, else creates it.
MergeRel(G, r) ==
    IF BagIn(r, G.edges) THEN G ELSE [G EXCEPT !.edges = @ (+) SetToBag({r})]

\* One row of a relationship statement: both MATCH clauses must bind, else
\* the row yields nothing.
MatchMergeRel(G, r) ==
    IF MatchNode(G, r.src.kind, r.src.key) /\ MatchNode(G, r.dst.kind, r.dst.key)
    THEN MergeRel(G, r)
    ELSE G

RECURSIVE UnwindNodes(_, _, _)
\* UNWIND $rows AS row  MERGE (n:kind {key: row.file_name}) ON CREATE SET n.name = row.name
UnwindNodes(G, kind, rows) ==
    IF rows = <<>> THEN G
    ELSE UnwindNodes(MergeNode(G, kind, Head(rows).file_name, Head(rows).name),
                     kind, Tail(rows))

RECURSIVE UnwindRels(_, _)
\* UNWIND $rows AS row  MATCH ... MATCH ... MERGE ...
UnwindRels(G, rows) ==
    IF rows = <<>> THEN G
    ELSE UnwindRels(MatchMergeRel(G, Head(rows)), Tail(rows))

\* A Genre, Descriptor or Language node: its name is its identity key.
NamedRow(nm) == Artist(nm, nm)

----------------------------------------------------------------------------
(* update_graph: the eleven statements, in the order of the code           *)

MergeArtists(G, albums) == UnwindNodes(G, "Artist", artists(albums))

MergeGenres(G, albums) ==
    UnwindNodes(G, "Genre", SeqMap(NamedRow, list(genres(albums))))

MergeDescriptors(G, albums) ==
    UnwindNodes(G, "Descriptor", SeqMap(NamedRow, list(descriptors(albums))))

MergeLanguages(G, albums) ==
    UnwindNodes(G, "Language", SeqMap(NamedRow, list(language(albums))))

AlbumRow(e) == Artist(e.file_name, e.album.name)

MergeAlbums(G, albums) == UnwindNodes(G, "Album", SeqMap(AlbumRow, albums))

AlbumArtistRows(e) ==
    SeqMap(LAMBDA a : Rel("ALBUM_ARTIST", NodeRef("Artist", a.file_name),
                          NodeRef("Album", e.file_name), "", 0),
           e.album.artists)

MergeAlbumArtists(G, albums) == UnwindRels(G, FlatMap(AlbumArtistRows, albums))

\* Only the first role of a credit: what dropping the inner loop would give.
CreditRowsFirstRole(e) ==
    FlatMap(LAMBDA c :
                IF c.roles = <<>> THEN <<>>
                ELSE <<Rel("CREDITED", NodeRef("Artist", c.artist.file_name),
                           NodeRef("Album", e.file_name), Head(c.roles), 0)>>,
            e.album.credits)

\* for credit in album.credits for role in credit.roles
CreditRows(e) ==
    FlatMap(LAMBDA c :
                SeqMap(LAMBDA role :
                           Rel("CREDITED", NodeRef("Artist", c.artist.file_name),
                               NodeRef("Album", e.file_name), role, 0),
                       c.roles),
            e.album.credits)

MergeCredits(G, albums) == UnwindRels(G, FlatMap(CreditRows, albums))

GenreRel(file_name, genre, weight) ==
    Rel("GENRE", NodeRef("Album", file_name), NodeRef("Genre", genre), "", weight)

\* The weight literal of the primary-genre statement of each copy.
PrimaryGenreWeight(which) ==
    IF which = "main" THEN MainPrimaryGenreWeight ELSE DbPrimaryGenreWeight

MergePrimaryGenres(G, albums, which) ==
    UnwindRels(G,
        FlatMap(LAMBDA e : SeqMap(LAMBDA g : GenreRel(e.file_name, g, PrimaryGenreWeight(which)),
                                  e.album.primary_genres),
                albums))

MergeSecondaryGenres(G, albums) ==
    UnwindRels(G,
        FlatMap(LAMBDA e : SeqMap(LAMBDA g : GenreRel(e.file_name, g, SecondaryGenreWeight),
                                  e.album.secondary_genres),
                albums))

MergeAlbumDescriptors(G, albums) ==
    UnwindRels(G,
        FlatMap(LAMBDA e : SeqMap(LAMBDA d : Rel("DESCRIPTOR", NodeRef("Album", e.file_name),
                                                 NodeRef("Descriptor", d), "", 0),
                                  e.album.descriptors),
                albums))

MergeAlbumLanguages(G, albums) ==
    UnwindRels(G,
        FlatMap(LAMBDA e : SeqMap(LAMBDA l : Rel("LANGUAGE", NodeRef("Album", e.file_name),
                                                 NodeRef("Language", l), "", 0),
                                  e.album.languages),
                albums))

\* The statements with the ALBUM_ARTIST merge moved before the Album merge.
StatementAlbumArtistsFirst(k, G, albums, which) ==
    CASE k = 1 -> MergeArtists(G, albums)
      [] k = 2 -> MergeGenres(G, albums)
      [] k = 3 -> MergeDescriptors(G, albums)
      [] k = 4 -> MergeLanguages(G, albums)
      [] k = 5 -> MergeAlbumArtists(G, albums)
      [] k = 6 -> MergeAlbums(G, albums)
      [] k = 7 -> MergeCredits(G, albums)
      [] k = 8 -> MergePrimaryGenres(G, albums, which)
      [] k = 9 -> MergeSecondaryGenres(G, albums)
      [] k = 10 -> MergeAlbumDescriptors(G, albums)
      [] k = 11 -> MergeAlbumLanguages(G, albums)

\* The k-th gds.run_cypher call of update_graph applied to the store.
Statement(k, G, albums, which) ==
    CASE k = 1 -> MergeArtists(G, albums)
      [] k = 2 -> MergeGenres(G, albums)
      [] k = 3 -> MergeDescriptors(G, albums)
      [] k = 4 -> MergeLanguages(G, albums)
      [] k = 5 -> MergeAlbums(G, albums)
      [] k = 6 -> MergeAlbumArtists(G, albums)
      [] k = 7 -> MergeCredits(G, albums)
      [] k = 8 -> MergePrimaryGenres(G, albums, which)
      [] k = 9 -> MergeSecondaryGenres(G, albums)
      [] k = 10 -> MergeAlbumDescriptors(G, albums)
      [] k = 11 -> MergeAlbumLanguages(G, albums)


----------------------------------------------------------------------------
(* Events of the stream and the classifier of run()                        *)

\* The links HasField is asked for, outermost first.
Chain == <<"payload", "event", "file_parsed", "data", "album">>

\* An EventStreamItem: the links of the chain that are set, and what
\* file_parsed.file_name and file_parsed.data.album read as.
Item(has, entry) == [has |-> has, file_name |-> entry.file_name, album |-> entry.album]

FullChain == Range(Chain)

\* An event of another kind: payload and event are set, file_parsed is not;
\* the fields below it read as their defaults.
OtherItem ==
    [has |-> {"payload", "event"},
     file_name |-> "",
     album |-> [name |-> "", artists |-> <<>>, credits |-> <<>>,
                primary_genres |-> <<>>, secondary_genres |-> <<>>,
                descriptors |-> <<>>, languages |-> <<>>]]

\* A file_parsed event whose data is of another kind than album: the chain
\* is set down to data, the album reads as its default.
NoAlbumItem ==
    [has |-> {"payload", "event", "file_parsed", "data"},
     file_name |-> "al2",
     album |-> OtherItem.album]

ItemPool == {Item(FullChain, Album1), Item(FullChain, Album3), OtherItem, NoAlbumItem}

\* The items a reply may carry.
ReplyItems == {<<>>} \cup SeqsUpTo(ItemPool, MaxItems)

\* A classifier that stops at file_parsed.data.
IsFileParsedEvent(item) ==
    /\ "payload" \in item.has
    /\ "event" \in item.has
    /\ "file_parsed" \in item.has
    /\ "data" \in item.has

is_album_parsed_event(item) ==
    /\ "payload" \in item.has
    /\ "event" \in item.has
    /\ "file_parsed" \in item.has
    /\ "data" \in item.has
    /\ "album" \in item.has

RECURSIVE parsed_albums(_)
\* [(file_name, album) for item in items if is_album_parsed_event(item)]
parsed_albums(its) ==
    IF its = <<>> THEN <<>>
    ELSE (IF is_album_parsed_event(Head(its))
          THEN <<[file_name |-> Head(its).file_name, album |-> Head(its).album]>>
          ELSE <<>>) \o parsed_albums(Tail(its))

----------------------------------------------------------------------------
(* LuteClient.stream_events and run(): the ingestion loop                  *)

\* A request on the wire; cursor 0 stands for a request without cursor.
\* consumed records how many batches the caller had finished at that moment.
Request(cursor) == [cursor |-> cursor, consumed |-> resumed]

\* The state right after run() has entered the LuteClient and stream_events
\* has created the queue and started the Stream call.
StreamStarted ==
    /\ server = "open"
    /\ nreplies = 0
    /\ nread = 0
    /\ cur = 0
    /\ items = <<>>
    /\ requests = <<>>
    /\ queue = <<>>
    /\ sender = "first"
    /\ loop = "next"
    /\ exc = "none"
    /\ call = "active"
    /\ resumed = 0
    /\ lockstep = TRUE
    /\ channelOpen = TRUE
    /\ gdsOpen = TRUE
    /\ cancelReq = 0

----------------------------------------------------------------------------
(* LuteClient (lute.py): the methods as used one call at a time            *)

\* Strings are sequences of characters.
Prefixes == {<<"g">>, <<"g", ":", "b">>}

\* The subscriber ids the methods are called with.
Names == {<<"b">>, <<"b", ":", "b">>}

\* The wire id with the prefix dropped.
WireUnprefixed(prefix, subscriber_id) == subscriber_id

\* f"{LUTE_EVENT_SUBSCRIBER_PREFIX}:{subscriber_id}"
Wire(prefix, subscriber_id) == prefix \o <<":">> \o subscriber_id

\* The ids the entries of a monitor may have: prefixed under some prefix, or bare.
MonitorIds == {Wire(p, s) : p \in Prefixes, s \in Names} \cup Names

Subscribers == [id : MonitorIds, cursor : {"c1", "c2"}]

\* monitor.subscribers as the server may return it.
Monitors == {<<>>} \cup SeqsUpTo(Subscribers, MaxSubscribers)

RECURSIVE SelectCursor(_, _)
\* for subscriber in monitor.subscribers:
\*     if subscriber.id == subscriber_id: return subscriber.cursor
\* return None
SelectCursor(subscribers, subscriber_id) ==
    IF subscribers = <<>> THEN "None"
    ELSE IF Head(subscribers).id = subscriber_id THEN Head(subscribers).cursor
    ELSE SelectCursor(Tail(subscribers), subscriber_id)

Methods ==
    {"get_event_monitor", "get_subscriber_cursor", "stream_events",
     "bulk_upload_embeddings"}

\* The RPC a method starts.
RpcOf(method) ==
    CASE method = "get_event_monitor" -> "GetMonitor"
      [] method = "get_subscriber_cursor" -> "GetMonitor"
      [] method = "stream_events" -> "Stream"
      [] method = "bulk_upload_embeddings" -> "BulkUploadAlbumEmbeddings"

\* bulk_upload_embeddings without its test of the stub.
NoCheckOnUpload(method) == method # "bulk_upload_embeddings"

\* Every method starts with: if self.<stub> is None: raise ValueError(...)
HasCheck(method) == TRUE

\* A LuteClient right after LuteClient(): the stubs are None.
NewClient(prefix) ==
    [prefix |-> prefix, entered |-> FALSE, method |-> "none", arg |-> <<>>,
     pc |-> "none", error |-> "none", rpcs |-> <<>>, sent |-> <<>>,
     monitor |-> <<>>, result |-> "none"]

NoClient == NewClient(<<"g">>)

----------------------------------------------------------------------------
(* POST /embeddings/albums/sync: sync_album_embeddings (api.py),           *)
(* generate_album_embeddings (db.py), bulk_upload_embeddings (lute.py)     *)

Fields == {"album_artist", "credited", "descriptor", "language"}

Default(f) ==
    CASE f = "album_artist" -> DefaultAlbumArtist
      [] f = "credited" -> DefaultCredited
      [] f = "descriptor" -> DefaultDescriptor
      [] f = "language" -> DefaultLanguage

Absent == [given |-> FALSE, value |-> 0]

Given(v) == [given |-> TRUE, value |-> v]

\* The JSON bodies posted: each field absent or an integer.
Bodies == [Fields -> {Absent, Given(-1), Given(0), Given(2)}]

\* A validation that lets 0 pass.
ValidNonNegative(body) == \A f \in Fields : body[f].given => body[f].value >= 0

\* PositiveInt: a given value must be greater than 0.
Valid(body) == \A f \in Fields : body[f].given => body[f].value > 0

\* The AlbumRelationWeights a valid body is parsed to.
Weights(body) ==
    [f \in Fields |-> IF body[f].given THEN body[f].value ELSE Default(f)]

NoWeights == [f \in Fields |-> 0]

Min(a, b) == IF a < b THEN a ELSE b

\* A slice that takes the element at the upper index too.
SliceInclusive(len, lo, hi) == [from |-> Min(lo, len), to |-> Min(hi + 1, len)]

\* embeddings[lo : hi] of a list of len elements, as the positions it takes:
\* from (counted from 0) up to, not including, to.
Slice(len, lo, hi) == [from |-> Min(lo, len), to |-> Min(hi, len)]

\* The lengths the list of embeddings may have: around the batch boundaries.
EmbeddingCounts ==
    {k * batch_size + d : k \in 0..MaxFullBatches, d \in {0, 1}}
        \cup {k * batch_size - 1 : k \in 1..MaxFullBatches}

NoReq ==
    [pc |-> "idle", body |-> [f \in Fields |-> Absent],
     weights |-> NoWeights, projection |-> -1, n |-> 0,
     cursor |-> 0, sent |-> <<>>, reply |-> -1, node_count |-> -1]

NoRequest ==
    /\ projections = {}
    /\ clock = 0
    /\ req = NoReq
    /\ cli = NoClient

----------------------------------------------------------------------------
(* update_graph as a process: one step per statement                       *)

\* A count that takes every (credit, role) pair.
ContributionPerRole(album) ==
    Len(album.artists) + Len(FlatMap(LAMBDA c : c.roles, album.credits))
        + Len(album.primary_genres) + Len(album.secondary_genres)
        + Len(album.descriptors) + Len(album.languages)

\* What one album adds to relationship_count.
Contribution(album) ==
    Len(album.artists) + Len(album.credits)
        + Len(album.primary_genres) + Len(album.secondary_genres)
        + Len(album.descriptors) + Len(album.languages)

RECURSIVE relationship_count(_)
\* relationship_count after the loop over the albums of the batch.
relationship_count(albums) ==
    IF albums = <<>> THEN 0
    ELSE Contribution(Head(albums).album) + relationship_count(Tail(albums))

\* len(artists) + len(genres) + len(descriptors) + len(language) + len(albums)
node_count(albums) ==
    Len(artists(albums)) + Cardinality(genres(albums))
        + Cardinality(descriptors(albums)) + Cardinality(language(albums))
        + Len(albums)

NoLog == [album_count |-> 0, node_count |-> 0, relationship_count |-> 0]

\* The "Graph updated" record.
GraphUpdated(albums) ==
    [album_count |-> Len(albums),
     node_count |-> node_count(albums),
     relationship_count |-> relationship_count(albums)]

Idle == [state |-> "idle", stmt |-> 0, albums |-> <<>>, replay |-> FALSE, log |-> NoLog]

Started(albums, replay) ==
    [state |-> "running", stmt |-> 1, albums |-> albums, replay |-> replay,
     log |-> NoLog]

\* gds.run_cypher(statement ug.stmt) returns: the store holds its effect and
\* the function goes on to the next statement, or, after the last, logs
\* "Graph updated" and returns.
RunStatement ==
    /\ ug.state = "running"
    /\ graph' = Statement(ug.stmt, graph, ug.albums, impl)
    /\ ug' = IF ug.stmt = StatementCount
             THEN [ug EXCEPT !.state = "done", !.log = GraphUpdated(ug.albums)]
             ELSE [ug EXCEPT !.stmt = @ + 1]
    /\ UNCHANGED <<cli, embedVars, impl, snap, streamVars>>

\* gds.run_cypher(statement ug.stmt) raises: the statement leaves nothing in
\* the store and the exception leaves update_graph at once; no caller in the
\* program catches it.
FailStatement ==
    /\ ug.state = "running"
    /\ ug' = [ug EXCEPT !.state = "failed"]
    /\ UNCHANGED <<cli, embedVars, graph, impl, snap, streamVars>>

----------------------------------------------------------------------------
(* SpecGraph: update_graph called with any batch, on any graph it left     *)

InitGraph ==
    /\ graph = EmptyGraph
    /\ impl \in {"main", "db"}
    /\ ug = Idle
    /\ snap = EmptyGraph
    /\ StreamStarted
    /\ NoRequest

\* update_graph(albums) is called on the store as it is.
Call(albums) ==
    /\ ug.state = "idle"
    /\ ug' = Started(albums, FALSE)
    /\ snap' = graph
    /\ UNCHANGED <<cli, embedVars, graph, impl, streamVars>>

\* The call returned; the caller goes on.
Return ==
    /\ ug.state = "done"
    /\ ug' = Idle
    /\ snap' = EmptyGraph
    /\ UNCHANGED <<cli, embedVars, graph, impl, streamVars>>

\* The batch just applied is applied again (the upstream replays it).
Replay ==
    /\ ug.state = "done"
    /\ ug' = Started(ug.albums, TRUE)
    /\ snap' = graph
    /\ UNCHANGED <<cli, embedVars, graph, impl, streamVars>>

NextGraph ==
    \/ \E albums \in Batches : Call(albums)
    \/ RunStatement
    \/ FailStatement
    \/ Return
    \/ Replay

SpecGraph == InitGraph /\ [][NextGraph]_vars

----------------------------------------------------------------------------
(* Spec: the ingestion loop of run() on one stream                         *)

Init ==
    /\ graph = EmptyGraph
    /\ impl = "main"
    /\ ug = Idle
    /\ snap = EmptyGraph
    /\ StreamStarted
    /\ NoRequest

(* The upstream server: once it has the initial request (which names the  *)
(* stream and the subscriber) it may send a reply at any time, in answer   *)
(* to a request or not. That it ended the stream, or that the RPC failed, shows *)
(* on the client only where stream_events awaits the next reply (ReadEnd,  *)
(* ReadError below).                                                       *)

ServerReply ==
    /\ server = "open"
    /\ channelOpen
    /\ requests # <<>>
    /\ nreplies < MaxReplies
    /\ nreplies' = nreplies + 1
    /\ lockstep' = (lockstep /\ nreplies < Len(requests))
    /\ UNCHANGED <<cli, embedVars, cancelReq, graphVars, server, nread, cur, items, requests, queue, sender, loop,
                   exc, call, resumed, channelOpen, gdsOpen>>

(* request_generator, pulled by the RPC runtime *)

\* A queue that hands out the newest entry first.
QueueGetLast(q) == [cursor |-> q[Len(q)], rest |-> SubSeq(q, 1, Len(q) - 1)]

\* A queue whose get leaves the entry in the queue.
QueuePeek(q) == [cursor |-> Head(q), rest |-> q]

\* cursor = await queue.get(): asyncio.Queue is first in, first out.
QueueGet(q) == [cursor |-> Head(q), rest |-> Tail(q)]

\* yield EventStreamRequest(stream_id, subscriber_id, max_batch_size)
SendFirst ==
    /\ sender = "first"
    /\ call = "active"
    /\ requests' = Append(requests, Request(0))
    /\ sender' = "get"
    /\ UNCHANGED <<cli, embedVars, cancelReq, graphVars, server, nreplies, nread, cur, items, queue, loop,
                   exc, call, resumed, lockstep, channelOpen, gdsOpen>>

\* cursor = await queue.get(); yield EventStreamRequest(..., cursor=cursor, ...)
SendAck ==
    /\ sender = "get"
    /\ call = "active"
    /\ queue # <<>>
    /\ requests' = Append(requests, Request(QueueGet(queue).cursor))
    /\ queue' = QueueGet(queue).rest
    /\ sender' = "sleep"
    /\ UNCHANGED <<cli, embedVars, cancelReq, graphVars, server, nreplies, nread, cur, items, loop,
                   exc, call, resumed, lockstep, channelOpen, gdsOpen>>

\* await asyncio.sleep(0.25) is over
SleepDone ==
    /\ sender = "sleep"
    /\ call = "active"
    /\ sender' = "get"
    /\ UNCHANGED <<cli, embedVars, cancelReq, graphVars, server, nreplies, nread, cur, items, requests, queue, loop,
                   exc, call, resumed, lockstep, channelOpen, gdsOpen>>

(* stream_events proper and the loop of run() *)

\* Acknowledging a reply as soon as it is read, before it is yielded.
AckOnRead(q, cursor) == Append(q, cursor)

\* What reading a reply does to the queue: nothing, the put comes after the yield.
QueueAfterRead(q, cursor) == q

\* Resuming without handing the cursor to the request sender.
NoPutOnResume(q, cursor) == q

\* await queue.put(reply.cursor), when the caller asks for the next batch
QueueAfterResume(q, cursor) == Append(q, cursor)

\* Going on with the next batch after a failed update, as a handler around
\* update_graph would.
ContinueOnUpdateError(q, cursor) ==
    [loop |-> "next", exc |-> "none", queue |-> Append(q, cursor)]

\* update_graph raised inside the loop body: nothing catches it, the loop is
\* left and stream_events stays suspended at its yield.
OnUpdateError(q, cursor) == [loop |-> "leaving", exc |-> "graph", queue |-> q]

\* async for reply in Stream(...): a reply is there; yield reply.items
ReadReply(reply_items) ==
    /\ loop = "next"
    /\ call = "active"
    /\ cancelReq = 0
    /\ nread < nreplies
    /\ nread' = nread + 1
    /\ cur' = nread + 1
    /\ items' = reply_items
    /\ queue' = QueueAfterRead(queue, nread + 1)
    /\ loop' = "body"
    /\ UNCHANGED <<cli, embedVars, cancelReq, graphVars, server, nreplies, requests, sender,
                   exc, call, resumed, lockstep, channelOpen, gdsOpen>>

\* The server has ended the stream and every reply is read: the async for
\* of stream_events ends, and with it the loop of run().
ReadEnd ==
    /\ loop = "next"
    /\ call = "active"
    /\ cancelReq = 0
    /\ server = "open"
    /\ nread = nreplies
    /\ server' = "eof"
    /\ loop' = "leaving"
    /\ call' = "finished"
    /\ UNCHANGED <<cli, embedVars, cancelReq, graphVars, nreplies, nread, cur, items, requests, queue, sender,
                   exc, resumed, lockstep, channelOpen, gdsOpen>>

\* The RPC has failed (replies may be unread): the error is raised out of
\* stream_events and out of the loop of run().
ReadError ==
    /\ loop = "next"
    /\ call = "active"
    /\ cancelReq = 0
    /\ server = "open"
    /\ server' = "error"
    /\ loop' = "leaving"
    /\ exc' = "transport"
    /\ call' = "finished"
    /\ UNCHANGED <<cli, embedVars, cancelReq, graphVars, nreplies, nread, cur, items, requests, queue, sender,
                   resumed, lockstep, channelOpen, gdsOpen>>

\* task.cancel() on the task running run() while it runs the loop body,
\* which has no await (update_graph is synchronous): the request is noted
\* and CancelledError is raised where the task next suspends.
CancelInFlight ==
    /\ loop \in {"body", "updating"}
    /\ cancelReq = 0
    /\ cancelReq' = cur
    /\ UNCHANGED <<cli, embedVars, graphVars, server, nreplies, nread, cur, items, requests, queue,
                   sender, loop, exc, call, resumed, lockstep, channelOpen, gdsOpen>>

\* CancelledError is raised where stream_events awaits the next reply: the
\* RPC is cancelled and the error leaves stream_events and the loop of run().
\* The cancellation was requested during the batch before (and queue.put of
\* its cursor, which never suspends on an unbounded queue, has run), or it
\* comes while the task waits for the reply.
CancelAtRead ==
    /\ loop = "next"
    /\ call = "active"
    /\ loop' = "leaving"
    /\ exc' = "cancelled"
    /\ call' = "finished"
    /\ UNCHANGED <<cli, embedVars, graphVars, server, nreplies, nread, cur, items, requests, queue,
                   sender, resumed, lockstep, channelOpen, gdsOpen, cancelReq>>

\* Calling update_graph for every batch, an empty one too.
AlwaysUpdate(albums) == TRUE

\* if parsed_albums: an empty list is false
ShouldUpdate(albums) == albums # <<>>

\* if parsed_albums: update_graph(gds, parsed_albums)
CallUpdateGraph ==
    /\ loop = "body"
    /\ ShouldUpdate(parsed_albums(items))
    /\ ug' = Started(parsed_albums(items), FALSE)
    /\ snap' = graph
    /\ items' = <<>>
    /\ loop' = "updating"
    /\ UNCHANGED <<cli, embedVars, cancelReq, graph, impl, server, nreplies, nread, cur, requests, queue, sender,
                   exc, call, resumed, lockstep, channelOpen, gdsOpen>>

\* No album-parsed item in the batch: the body ends, the iterator is resumed.
ResumeSkipped ==
    /\ loop = "body"
    /\ ~ShouldUpdate(parsed_albums(items))
    /\ queue' = QueueAfterResume(queue, cur)
    /\ resumed' = resumed + 1
    /\ cur' = 0
    /\ items' = <<>>
    /\ loop' = "next"
    /\ UNCHANGED <<cli, embedVars, cancelReq, graphVars, server, nreplies, nread, requests, sender,
                   exc, call, lockstep, channelOpen, gdsOpen>>

\* update_graph returned: the body ends, the iterator is resumed.
ResumeApplied ==
    /\ loop = "updating"
    /\ ug.state = "done"
    /\ queue' = QueueAfterResume(queue, cur)
    /\ resumed' = resumed + 1
    /\ cur' = 0
    /\ ug' = Idle
    /\ snap' = EmptyGraph
    /\ loop' = "next"
    /\ UNCHANGED <<cli, embedVars, cancelReq, graph, impl, server, nreplies, nread, items, requests, sender,
                   exc, call, lockstep, channelOpen, gdsOpen>>

\* update_graph raised.
UpdateRaised ==
    /\ loop = "updating"
    /\ ug.state = "failed"
    /\ loop' = OnUpdateError(queue, cur).loop
    /\ exc' = OnUpdateError(queue, cur).exc
    /\ queue' = OnUpdateError(queue, cur).queue
    /\ UNCHANGED <<cli, embedVars, cancelReq, graphVars, server, nreplies, nread, cur, items, requests, sender,
                   call, resumed, lockstep, channelOpen, gdsOpen>>

\* LuteClient.__aexit__: await self.channel.close(), which ends the call.
ExitClient ==
    /\ loop = "leaving"
    /\ channelOpen' = FALSE
    /\ call' = "finished"
    /\ loop' = "exited"
    /\ UNCHANGED <<cli, embedVars, cancelReq, graphVars, server, nreplies, nread, cur, items, requests, queue, sender,
                   exc, resumed, lockstep, gdsOpen>>

\* gds.close(), the statement after the async with block.
CloseGds ==
    /\ loop = "exited"
    /\ exc = "none"
    /\ gdsOpen' = FALSE
    /\ loop' = "returned"
    /\ UNCHANGED <<cli, embedVars, cancelReq, graphVars, server, nreplies, nread, cur, items, requests, queue, sender,
                   exc, call, resumed, lockstep, channelOpen>>

Next ==
    \/ ServerReply
    \/ SendFirst
    \/ SendAck
    \/ SleepDone
    \/ \E reply_items \in ReplyItems : ReadReply(reply_items)
    \/ ReadEnd
    \/ ReadError
    \/ CallUpdateGraph
    \/ RunStatement
    \/ FailStatement
    \/ ResumeSkipped
    \/ ResumeApplied
    \/ UpdateRaised
    \/ ExitClient
    \/ CloseGds
    \/ CancelInFlight
    \/ CancelAtRead

Spec == Init /\ [][Next]_vars

----------------------------------------------------------------------------
(* SpecLive: the ingestion loop while the stream stays open, the server    *)
(* answers every request with a reply, every call of update_graph returns  *)
(* and every task of the event loop is run when it is ready                *)

\* The server sends a reply in answer to a request it has not answered yet.
ServerAnswer ==
    /\ nreplies < Len(requests)
    /\ ServerReply

NextLive ==
    \/ ServerAnswer
    \/ SendFirst
    \/ SendAck
    \/ SleepDone
    \/ \E reply_items \in ReplyItems : ReadReply(reply_items)
    \/ CallUpdateGraph
    \/ RunStatement
    \/ ResumeSkipped
    \/ ResumeApplied

\* The reply reader, the request sender and the loop of run() are tasks of
\* one event loop, which runs each of them when it is ready; update_graph is
\* synchronous and is not left running for ever: each of its statements
\* returns.
SpecLive ==
    /\ Init
    /\ [][NextLive]_vars
    /\ WF_vars(ServerAnswer)
    /\ WF_vars(SendFirst)
    /\ WF_vars(SendAck)
    /\ WF_vars(SleepDone)
    /\ WF_vars(\E reply_items \in ReplyItems : ReadReply(reply_items))
    /\ WF_vars(CallUpdateGraph)
    /\ []<>(ug.state # "running")
    /\ WF_vars(ResumeSkipped)
    /\ WF_vars(ResumeApplied)

----------------------------------------------------------------------------
(* SpecEmbed: embedding sync requests, one after the other                 *)

InitEmbed ==
    /\ graph = EmptyGraph
    /\ impl = "main"
    /\ ug = Idle
    /\ snap = EmptyGraph
    /\ StreamStarted
    /\ NoRequest

Tick ==
    /\ clock < MaxClock
    /\ clock' = clock + 1
    /\ UNCHANGED <<cli, graphVars, streamVars, projections, req>>

\* The body is validated before the handler runs: an invalid one is answered
\* with a validation error.
PostInvalid(body) ==
    /\ req.pc = "idle"
    /\ ~Valid(body)
    /\ req' = [NoReq EXCEPT !.pc = "rejected", !.body = body]
    /\ UNCHANGED <<cli, graphVars, streamVars, projections, clock>>

\* A valid body: the handler runs and calls generate_album_embeddings.
PostValid(body) ==
    /\ req.pc = "idle"
    /\ Valid(body)
    /\ req' = [NoReq EXCEPT !.pc = "project", !.body = body, !.weights = Weights(body)]
    /\ UNCHANGED <<cli, graphVars, streamVars, projections, clock>>

\* projection_id = f"p_{int(time())}"; gds.graph.project(projection_id, ...)
Project ==
    /\ req.pc = "project"
    /\ clock \notin projections
    /\ projections' = projections \cup {clock}
    /\ req' = [req EXCEPT !.pc = "embed", !.projection = clock]
    /\ UNCHANGED <<cli, graphVars, streamVars, clock>>

\* gds.graph.project raises: the store holds a projection of that name.
ProjectFails ==
    /\ req.pc = "project"
    /\ clock \in projections
    /\ req' = [req EXCEPT !.pc = "failed"]
    /\ UNCHANGED <<cli, graphVars, streamVars, projections, clock>>

\* result = gds.run_cypher("CALL gds.fastRP.stream ..."): n rows
Embed(n) ==
    /\ req.pc = "embed"
    /\ req' = [req EXCEPT !.pc = "docs", !.n = n]
    /\ UNCHANGED <<cli, graphVars, streamVars, projections, clock>>

\* gds.run_cypher raises: the exception leaves generate_album_embeddings.
EmbedFails ==
    /\ req.pc = "embed"
    /\ req' = [req EXCEPT !.pc = "failed"]
    /\ UNCHANGED <<cli, graphVars, streamVars, projections, clock>>

\* embedding_documents = [EmbeddingDocument(...) for row in ...]
BuildDocuments ==
    /\ req.pc = "docs"
    /\ req' = [req EXCEPT !.pc = "drop"]
    /\ UNCHANGED <<cli, graphVars, streamVars, projections, clock>>

\* Building the documents raises.
BuildDocumentsFails ==
    /\ req.pc = "docs"
    /\ req' = [req EXCEPT !.pc = "failed"]
    /\ UNCHANGED <<cli, graphVars, streamVars, projections, clock>>

\* projection.drop(); return embedding_documents; the handler sets cursor = 0
\* and awaits bulk_upload_embeddings(upload_generator()).
Drop ==
    /\ req.pc = "drop"
    /\ projections' = projections \ {req.projection}
    /\ req' = [req EXCEPT !.pc = "upload", !.cursor = 0]
    /\ UNCHANGED <<cli, graphVars, streamVars, clock>>

\* upload_generator: while cursor < len(embeddings): yield the next batch,
\* which request_generator sends as one request; cursor += batch_size.
UploadBatch ==
    /\ req.pc = "upload"
    /\ req.cursor < req.n
    /\ req' = [req EXCEPT !.sent = Append(@, Slice(req.n, req.cursor, req.cursor + batch_size)),
                          !.cursor = @ + batch_size]
    /\ UNCHANGED <<cli, graphVars, streamVars, projections, clock>>

\* The generator is exhausted; the server answers with its count, which the
\* handler returns as node_count.
UploadReply(count) ==
    /\ req.pc = "upload"
    /\ req.cursor >= req.n
    /\ req' = [req EXCEPT !.pc = "responded", !.reply = count, !.node_count = count]
    /\ UNCHANGED <<cli, graphVars, streamVars, projections, clock>>

\* The request is cancelled where the handler awaits, which is the upload.
CancelRequest ==
    /\ req.pc = "upload"
    /\ req' = [req EXCEPT !.pc = "cancelled"]
    /\ UNCHANGED <<cli, graphVars, streamVars, projections, clock>>

\* The request is over; the next one may come.
Finish ==
    /\ req.pc \in {"rejected", "failed", "responded", "cancelled"}
    /\ req' = NoReq
    /\ UNCHANGED <<cli, graphVars, streamVars, projections, clock>>

NextEmbed ==
    \/ Tick
    \/ \E body \in Bodies : PostInvalid(body)
    \/ \E body \in Bodies : PostValid(body)
    \/ Project
    \/ ProjectFails
    \/ \E n \in EmbeddingCounts : Embed(n)
    \/ EmbedFails
    \/ BuildDocuments
    \/ BuildDocumentsFails
    \/ Drop
    \/ UploadBatch
    \/ \E count \in {0, req.n} : UploadReply(count)
    \/ CancelRequest
    \/ Finish

SpecEmbed == InitEmbed /\ [][NextEmbed]_vars

----------------------------------------------------------------------------
(* SpecClient: method calls on one LuteClient, before and after __aenter__ *)

InitClient ==
    /\ graph = EmptyGraph
    /\ impl = "main"
    /\ ug = Idle
    /\ snap = EmptyGraph
    /\ StreamStarted
    /\ projections = {}
    /\ clock = 0
    /\ req = NoReq
    /\ \E prefix \in Prefixes : cli = NewClient(prefix)

othersVars == <<graphVars, streamVars, embedVars>>

\* __aenter__: the channel and both stubs are set.
Enter ==
    /\ cli.method = "none"
    /\ ~cli.entered
    /\ cli' = [cli EXCEPT !.entered = TRUE]
    /\ UNCHANGED othersVars

\* A method is called (for stream_events: the generator is iterated).
Use(method, arg) ==
    /\ cli.method = "none"
    /\ cli' = [NewClient(cli.prefix) EXCEPT !.entered = cli.entered,
                                            !.method = method, !.arg = arg,
                                            !.pc = "check"]
    /\ UNCHANGED othersVars

\* The stub is None: ValueError("Client not initialized"), or, where the
\* stub is used untested, the AttributeError of None.
CheckFails ==
    /\ cli.pc = "check"
    /\ ~cli.entered
    /\ cli' = [cli EXCEPT !.pc = "raised",
                          !.error = IF HasCheck(cli.method) THEN "ValueError"
                                    ELSE "AttributeError"]
    /\ UNCHANGED othersVars

\* The stub is set: the RPC of the method is started.
StartRpc ==
    /\ cli.pc = "check"
    /\ cli.entered
    /\ cli' = [cli EXCEPT !.pc = "rpc", !.rpcs = Append(@, RpcOf(cli.method))]
    /\ UNCHANGED othersVars

\* GetMonitor answers: get_event_monitor returns response.monitor,
\* get_subscriber_cursor searches it for the prefixed id.
MonitorReply(monitor) ==
    /\ cli.pc = "rpc"
    /\ cli.method \in {"get_event_monitor", "get_subscriber_cursor"}
    /\ cli' = [cli EXCEPT !.pc = "done", !.monitor = monitor,
                          !.result = IF cli.method = "get_subscriber_cursor"
                                     THEN SelectCursor(monitor, Wire(cli.prefix, cli.arg))
                                     ELSE "monitor"]
    /\ UNCHANGED othersVars

\* request_generator of stream_events yields a request: the first without
\* cursor (0), the following ones with the cursors of the batches finished.
StreamSend ==
    /\ cli.pc = "rpc"
    /\ cli.method = "stream_events"
    /\ Len(cli.sent) <= MaxReplies
    /\ cli' = [cli EXCEPT !.sent = Append(@, [subscriber_id |-> Wire(cli.prefix, cli.arg),
                                              cursor |-> Len(cli.sent)])]
    /\ UNCHANGED othersVars

\* request_generator of bulk_upload_embeddings yields a request.
UploadSend ==
    /\ cli.pc = "rpc"
    /\ cli.method = "bulk_upload_embeddings"
    /\ Len(cli.sent) <= MaxFullBatches
    /\ cli' = [cli EXCEPT !.sent = Append(@, [subscriber_id |-> <<>>, cursor |-> 0])]
    /\ UNCHANGED othersVars

\* The streaming RPC ends.
RpcEnds ==
    /\ cli.pc = "rpc"
    /\ cli.method \in {"stream_events", "bulk_upload_embeddings"}
    /\ cli' = [cli EXCEPT !.pc = "done"]
    /\ UNCHANGED othersVars

\* The RPC fails.
RpcFails ==
    /\ cli.pc = "rpc"
    /\ cli' = [cli EXCEPT !.pc = "raised", !.error = "RpcError"]
    /\ UNCHANGED othersVars

\* The call is over.
Returned ==
    /\ cli.pc \in {"done", "raised"}
    /\ cli' = [NewClient(cli.prefix) EXCEPT !.entered = cli.entered]
    /\ UNCHANGED othersVars

NextClient ==
    \/ Enter
    \/ \E method \in Methods :
          \E arg \in (IF method \in {"get_subscriber_cursor", "stream_events"}
                      THEN Names ELSE {<<>>}) : Use(method, arg)
    \/ CheckFails
    \/ StartRpc
    \/ \E monitor \in Monitors : MonitorReply(monitor)
    \/ StreamSend
    \/ UploadSend
    \/ RpcEnds
    \/ RpcFails
    \/ Returned

SpecClient == InitClient /\ [][NextClient]_vars

----------------------------------------------------------------------------
(* Properties of the LuteClient methods, checked under SpecClient          *)

\* C16: a method used on a client that was not entered raises the
\* not-initialised error, with no RPC started and no request sent.
C16_UseBeforeInit ==
    (cli.method \in Methods /\ ~cli.entered /\ cli.pc # "check") =>
        /\ cli.pc = "raised"
        /\ cli.error = "ValueError"
        /\ cli.rpcs = <<>>
        /\ cli.sent = <<>>

C16_Witness ==
    /\ cli.method = "bulk_upload_embeddings"
    /\ ~cli.entered
    /\ cli.pc = "raised"
    /\ cli.error = "ValueError"

\* The positions of the monitor whose entry has the given id.
EntriesWithId(id) == {i \in 1..Len(cli.monitor) : cli.monitor[i].id = id}

\* C17: get_subscriber_cursor(s) returns the cursor of the (first) entry of
\* the monitor whose id is the prefix, a colon and s, and None when there is
\* no such entry; an entry with the bare id s or with s under another prefix
\* is not the one selected. stream_events puts that same prefixed id in
\* every request it sends.
C17_PrefixedSubscriberId ==
    LET wire == cli.prefix \o <<":">> \o cli.arg
        found == EntriesWithId(wire)
    IN  /\ (cli.method = "get_subscriber_cursor" /\ cli.pc = "done") =>
              /\ found = {} => cli.result = "None"
              /\ found # {} =>
                    \E i \in found :
                        /\ \A j \in found : i <= j
                        /\ cli.result = cli.monitor[i].cursor
                        /\ cli.monitor[i].id # cli.arg
                        /\ \A p \in Prefixes \ {cli.prefix} :
                               cli.monitor[i].id # p \o <<":">> \o cli.arg
        /\ cli.method = "stream_events" =>
              \A i \in 1..Len(cli.sent) : cli.sent[i].subscriber_id = wire

C17_Witness ==
    /\ cli.method = "get_subscriber_cursor"
    /\ cli.pc = "done"
    /\ cli.prefix = <<"g">>
    /\ cli.arg = <<"b">>
    /\ cli.monitor = <<[id |-> <<"b">>, cursor |-> "c1"],
                       [id |-> <<"g", ":", "b">>, cursor |-> "c2"]>>
    /\ cli.result = "c2"

----------------------------------------------------------------------------
(* Properties of the embedding sync, checked under SpecEmbed               *)

InGenerate == req.pc \in {"embed", "docs", "drop"}

\* C7: every generate_album_embeddings call that has created a projection
\* has dropped it when it is left, however it is left: outside such a call
\* the store holds no projection.
C7_ProjectionCleanup == ~InGenerate => projections = {}

Ceil(n, d) == (n + d - 1) \div d

\* The batches sent so far are slices that follow each other from position 0
\* on, each with at least one and at most batch_size embeddings.
BatchesInOrder ==
    \A i \in 1..Len(req.sent) :
        /\ req.sent[i].from = (IF i = 1 THEN 0 ELSE req.sent[i - 1].to)
        /\ req.sent[i].to - req.sent[i].from \in 1..batch_size
        /\ req.sent[i].to <= req.n

\* C14: the upload sends the embeddings in order, each once, in batches of 1
\* to 1500, one request per batch; when the handler has responded it has
\* sent ceil(N/1500) requests that cover the whole list, and node_count is
\* the count of the server's reply. The generator never yields more than
\* ceil(N/1500) batches.
C14_UploadBatching ==
    /\ BatchesInOrder
    /\ Len(req.sent) <= Ceil(req.n, batch_size)
    /\ req.pc = "responded" =>
          /\ Len(req.sent) = Ceil(req.n, batch_size)
          /\ req.n > 0 => req.sent[Len(req.sent)].to = req.n
          /\ req.node_count = req.reply

C14_Witness ==
    /\ req.pc = "responded"
    /\ req.n = 2 * batch_size + 1
    /\ Len(req.sent) = 3
    /\ req.sent[3] = [from |-> 2 * batch_size, to |-> req.n]
    /\ req.node_count = req.n

\* The body gives a zero or negative value for some field.
NonPositiveGiven(body) == \E f \in Fields : body[f].given /\ body[f].value <= 0

\* What the fields of the weights are to be for a body that is accepted.
ExpectedWeights(body) ==
    [album_artist |-> IF body["album_artist"].given THEN body["album_artist"].value ELSE 4,
     credited |-> IF body["credited"].given THEN body["credited"].value ELSE 2,
     descriptor |-> IF body["descriptor"].given THEN body["descriptor"].value ELSE 1,
     language |-> IF body["language"].given THEN body["language"].value ELSE 1]

\* C15: a request whose body gives a non-positive weight is rejected, and a
\* rejected request creates no projection, runs no embedding query and starts
\* no upload: all it does is end. A request that is accepted runs with the
\* given weights, an absent field taking its default 4, 2, 1, 1.
C15_ValidationNoSideEffects ==
    [][/\ (req'.pc # "idle" /\ NonPositiveGiven(req'.body)) => req'.pc = "rejected"
       /\ (req.pc = "rejected" \/ req'.pc = "rejected") =>
             /\ projections' = projections
             /\ req'.pc \in {"rejected", "idle"}
             /\ req'.projection = -1 /\ req'.sent = <<>> /\ req'.reply = -1
       /\ req'.pc \notin {"idle", "rejected"} =>
             \A f \in Fields : req'.weights[f] = ExpectedWeights(req'.body)[f]]_vars

C15_Witness ==
    /\ req.pc = "rejected"
    /\ req.body["credited"] = Given(0)
    /\ req.body["album_artist"] = Given(2)
    /\ req.body["language"] = Absent
    /\ projections = {0}
    /\ clock = 1

----------------------------------------------------------------------------
(* Properties of update_graph, checked under SpecGraph                     *)

InCall == ug.state \in {"running", "done", "failed"}

Entries == Range(ug.albums)

\* C4: applying a batch a second time right after it was applied leaves the
\* graph as the first application left it: the same nodes with the same
\* names and the same multiset of relationships.
C4_Idempotent == (ug.state = "done" /\ ug.replay) => graph = snap

C4_Witness ==
    /\ ug.state = "done"
    /\ ug.replay
    /\ Len(ug.albums) = 2
    /\ graph.edges # EmptyBag
    /\ Cardinality(graph.nodes) > 6

EndpointsExist(G, r) ==
    MatchNode(G, r.src.kind, r.src.key) /\ MatchNode(G, r.dst.kind, r.dst.key)

ReferentialIntegrity == \A r \in BagToSet(graph.edges) : EndpointsExist(graph, r)

\* The nodes the k-th node statement (k in 1..5) has to have merged.
NodesOfStatement(k) ==
    CASE k = 1 -> {NodeRef("Artist", a.file_name) : a \in Range(artists(ug.albums))}
      [] k = 2 -> {NodeRef("Genre", g) : g \in genres(ug.albums)}
      [] k = 3 -> {NodeRef("Descriptor", d) : d \in descriptors(ug.albums)}
      [] k = 4 -> {NodeRef("Language", l) : l \in language(ug.albums)}
      [] k = 5 -> {NodeRef("Album", e.file_name) : e \in Entries}

NodeMergesInOrder ==
    InCall =>
        \A k \in 1..NodeStatementCount :
            (ug.stmt > k \/ ug.state = "done") =>
                \A n \in NodesOfStatement(k) : MatchNode(graph, n.kind, n.key)

\* The relationships the running call has added so far.
AddedRels == {r \in BagToSet(graph.edges) : CopiesIn(r, graph.edges) > CopiesIn(r, snap.edges)}

\* Until the five node statements have run the call has added no relationship.
NoRelationshipBeforeNodes ==
    (ug.state \in {"running", "failed"} /\ ug.stmt <= NodeStatementCount + 1) =>
        AddedRels = {}

\* C5: in every state, between statements and after a failed statement too,
\* every relationship has both endpoint nodes; the five node merges have run,
\* in the order Artists, Genres, Descriptors, Languages, Albums, before the
\* call adds its first relationship.
C5_ReferentialIntegrity ==
    /\ ReferentialIntegrity
    /\ NodeMergesInOrder
    /\ NoRelationshipBeforeNodes

C5_Witness ==
    /\ ug.state = "failed"
    /\ ug.stmt = 8
    /\ ug.albums = <<Album3, Album1>>
    /\ BagCardinality(graph.edges) >= 5

\* The names a batch supplies for a node of the given kind and key.
NamesSupplied(albums, kind, key) ==
    IF kind = "Album"
    THEN {e.album.name : e \in {x \in Range(albums) : x.file_name = key}}
    ELSE UNION {{a.name : a \in {x \in Range(e.album.artists) : x.file_name = key}}
                \cup {c.artist.name :
                        c \in {x \in Range(e.album.credits) : x.artist.file_name = key}}
                : e \in Range(albums)}

\* C6: a step never changes the name of an Album or Artist node that exists,
\* and a node it creates takes a name supplied by the batch being applied,
\* which is the first batch that created it.
C6_FirstWriterName ==
    [][\A n \in graph'.nodes :
          n.kind \in {"Album", "Artist"} =>
              IF MatchNode(graph, n.kind, n.key)
              THEN n \in graph.nodes
              ELSE n.name \in NamesSupplied(ug.albums, n.kind, n.key)]_vars

C6_Witness ==
    /\ ug.state = "done"
    /\ ~ug.replay
    /\ ug.albums = <<Album2>>
    /\ Node("Album", "al1", "Illmatic") \in graph.nodes
    /\ Node("Artist", "ar1", "Nas") \in graph.nodes
    /\ Node("Artist", "ar2", "DJ Premier") \in graph.nodes

GenreRelsBetween(G, file_name, genre) ==
    {r \in BagToSet(G.edges) :
        /\ r.type = "GENRE"
        /\ r.src = NodeRef("Album", file_name)
        /\ r.dst = NodeRef("Genre", genre)}

BothPrimaryAndSecondary(e) ==
    Range(e.album.primary_genres) \cap Range(e.album.secondary_genres)

\* C9: after update_graph, an album that lists a genre as primary and as
\* secondary has exactly two GENRE relationships to it, one of the primary
\* weight and one of weight 1, also after the batch was applied again.
C9_PrimaryAndSecondaryGenre ==
    ug.state = "done" =>
        \A e \in Entries :
            \A g \in BothPrimaryAndSecondary(e) :
                /\ GenreRelsBetween(graph, e.file_name, g)
                     = {GenreRel(e.file_name, g, PrimaryGenreWeight(impl)),
                        GenreRel(e.file_name, g, SecondaryGenreWeight)}
                /\ \A r \in GenreRelsBetween(graph, e.file_name, g) :
                       CopiesIn(r, graph.edges) = 1

C9_Witness ==
    /\ ug.state = "done"
    /\ ug.replay
    /\ ug.albums = <<Album1>>
    /\ Cardinality(GenreRelsBetween(graph, "al1", "g1")) = 2

\* The (album, artist, role) triples of the batch.
CreditTriples ==
    UNION {UNION {{Rel("CREDITED", NodeRef("Artist", c.artist.file_name),
                       NodeRef("Album", e.file_name), role, 0)
                   : role \in Range(c.roles)}
                  : c \in Range(e.album.credits)}
           : e \in Entries}

\* C10: after update_graph there is exactly one CREDITED relationship per
\* distinct (album, credited artist, role) triple of the batch.
C10_CreditsExpansion ==
    ug.state = "done" =>
        \A r \in CreditTriples : CopiesIn(r, graph.edges) = 1

C10_Witness ==
    /\ ug.state = "done"
    /\ ug.albums = <<Album1, Album2>>
    /\ Cardinality(CreditTriples) = 2
    /\ \A r \in CreditTriples : BagIn(r, graph.edges)

\* The artists of the batch as they occur: album by album, the album
\* artists of an album before its credited artists.
ArtistOccurrences(albums) ==
    FlatMap(LAMBDA e : e.album.artists \o SeqMap(LAMBDA c : c.artist, e.album.credits),
            albums)

\* The name of the first occurrence of the artist in the batch.
FirstOccurrenceName(albums, file_name) ==
    LET occ == ArtistOccurrences(albums)
        first == CHOOSE i \in 1..Len(occ) :
                    /\ occ[i].file_name = file_name
                    /\ \A j \in 1..(i - 1) : occ[j].file_name # file_name
    IN  occ[first].name

\* C21: the name update_graph passes to the Artist merge for a file_name is
\* the name of that artist's first occurrence in the batch.
C21_FirstArtistNameInBatch ==
    InCall =>
        \A a \in Range(artists(ug.albums)) :
            a.name = FirstOccurrenceName(ug.albums, a.file_name)

RECURSIVE SumOver(_, _)
\* The sum of f over the elements of a sequence.
SumOver(f(_), seq) == IF seq = <<>> THEN 0 ELSE f(Head(seq)) + SumOver(f, Tail(seq))

\* The artists of the batch, album artists and credited artists together.
ArtistKeys ==
    UNION {{a.file_name : a \in Range(e.album.artists)}
           \cup {c.artist.file_name : c \in Range(e.album.credits)} : e \in Entries}

\* The rows the six relationship statements are given for the batch.
RowsSubmitted ==
    SumOver(LAMBDA e : Len(AlbumArtistRows(e)) + Len(CreditRows(e))
                        + Len(e.album.primary_genres) + Len(e.album.secondary_genres)
                        + Len(e.album.descriptors) + Len(e.album.languages),
            ug.albums)

AllCredits == FlatMap(LAMBDA e : e.album.credits, ug.albums)

\* The counts of the record are the ones the claim gives.
CountsAsStated ==
    /\ ug.log.node_count =
          Cardinality(ArtistKeys) + Cardinality(genres(ug.albums))
            + Cardinality(descriptors(ug.albums)) + Cardinality(language(ug.albums))
            + Len(ug.albums)
    /\ ug.log.relationship_count =
          SumOver(LAMBDA e : Len(e.album.artists) + Len(e.album.credits)
                              + Len(e.album.primary_genres)
                              + Len(e.album.secondary_genres)
                              + Len(e.album.descriptors) + Len(e.album.languages),
                  ug.albums)

\* C22 as stated: the counts are as given and relationship_count is lower
\* than the number of rows submitted whenever a credit has several roles.
C22_CountsUndercount ==
    ug.state = "done" =>
        /\ CountsAsStated
        /\ (\E c \in Range(AllCredits) : Len(c.roles) > 1) =>
              ug.log.relationship_count < RowsSubmitted

\* C22 amended: the counts are as given; the rows submitted exceed
\* relationship_count by the sum over the credits of (number of roles - 1),
\* so relationship_count is lower whenever a credit has several roles and
\* no credit is without role.
C22_CountsPerCredit ==
    ug.state = "done" =>
        /\ CountsAsStated
        /\ RowsSubmitted - ug.log.relationship_count
              = SumOver(LAMBDA c : Len(c.roles) - 1, AllCredits)
        /\ ((\E c \in Range(AllCredits) : Len(c.roles) > 1)
              /\ (\A c \in Range(AllCredits) : Len(c.roles) >= 1)) =>
              ug.log.relationship_count < RowsSubmitted

C22_Witness ==
    /\ ug.state = "done"
    /\ ug.albums = <<Album1, Album2>>
    /\ ug.log.node_count = 8
    /\ ug.log.relationship_count = 12
    /\ RowsSubmitted = 15

----------------------------------------------------------------------------
(* Properties of the ingestion loop, checked under Spec                    *)

Acks == {i \in 1..Len(requests) : requests[i].cursor # 0}

\* C1: a request carrying the cursor of a reply is written only after the
\* caller was handed the batch of that reply and has resumed the iterator;
\* the cursors still in the queue are cursors of finished batches too.
C1_AckAfterConsumed ==
    /\ \A i \in Acks : requests[i].cursor <= requests[i].consumed
    /\ \A c \in Range(queue) : c <= resumed
    /\ cur # 0 => (cur > resumed /\ \A i \in Acks : requests[i].cursor # cur)

C1_Witness ==
    /\ loop = "updating"
    /\ cur = 3
    /\ \E i \in Acks : requests[i].cursor = 2
    /\ ~lockstep

RECURSIVE ApplyFirst(_, _, _, _)
\* The store after statements 1..k of update_graph(albums) on G.
ApplyFirst(k, G, albums, which) ==
    IF k = 0 THEN G
    ELSE CHOOSE after \in {Statement(k, before, albums, which) :
                               before \in {ApplyFirst(k - 1, G, albums, which)}} : TRUE

\* C3: once a statement of update_graph has failed in the loop, the store
\* holds the effect of the statements before it and of none after it, run()
\* is on its way out with the error, and the cursor of the batch is neither
\* sent nor queued, in that state and in every later one.
C3_FailedBatchNotAcked ==
    ug.state = "failed" =>
        /\ graph = ApplyFirst(ug.stmt - 1, snap, ug.albums, impl)
        /\ loop \in {"updating", "leaving", "exited"}
        /\ loop # "updating" => exc = "graph"
        /\ \A i \in Acks : requests[i].cursor # cur
        /\ cur \notin Range(queue)

C3_Witness ==
    /\ ug.state = "failed"
    /\ ug.stmt = 7
    /\ loop = "exited"
    /\ cur = 2
    /\ \E i \in Acks : requests[i].cursor = 1
    /\ graph # snap

\* The (file_name, album) pair of an item.
PairOf(item) == [file_name |-> item.file_name, album |-> item.album]

\* The items of the batch that have every link of the chain.
WithFullChain(its) == SelectSeq(its, LAMBDA item : FullChain \subseteq item.has)

\* C11: is_album_parsed_event accepts an item exactly when every link of
\* the chain is set; when run() has classified a batch, the pairs it goes on
\* with are those of the items with the full chain, in the order of the
\* items, and an item missing a link yields no pair.
C11_ClassifierCorrect ==
    [][/\ \A item \in Range(items) :
             is_album_parsed_event(item) <=> (\A link \in Range(Chain) : link \in item.has)
       /\ (loop = "body" /\ loop' = "updating") =>
             /\ ug'.albums = [i \in 1..Len(WithFullChain(items)) |->
                                PairOf(WithFullChain(items)[i])]
             /\ Len(ug'.albums) = Cardinality({i \in 1..Len(items) :
                                                   FullChain \subseteq items[i].has})
       /\ (loop = "body" /\ loop' = "next") =>
             /\ \A item \in Range(items) : ~(FullChain \subseteq item.has)
             /\ ug' = Idle]_vars

C11_Witness ==
    /\ loop = "updating"
    /\ ug.stmt = 1
    /\ ug.albums = <<Album3, Album1>>
    /\ nread = 2

\* No item of the batch has the full chain.
NoAlbumParsed(its) == \A item \in Range(its) : ~(FullChain \subseteq item.has)

\* C12: a batch without album-parsed item runs no statement of the graph
\* store: no update_graph call is started for it and the graph stays as it
\* is; when run() asks for the next batch its cursor is put on the queue of
\* the request sender, as the cursor of an applied batch is.
C12_SkippedBatchAcked ==
    [][/\ (loop = "body" /\ NoAlbumParsed(items)) =>
             /\ ug = Idle
             /\ ug' = Idle
             /\ graph' = graph
             /\ loop' \in {"body", "next"}
       /\ (loop \in {"body", "updating"} /\ loop' = "next") =>
             /\ queue' = Append(queue, cur)
             /\ resumed' = resumed + 1]_vars

C12_Witness ==
    /\ loop = "next"
    /\ resumed = 2
    /\ graph = EmptyGraph
    /\ ug = Idle
    /\ \E i \in Acks : requests[i].cursor = 1
    /\ queue = <<2>>
    /\ nreplies = 2

\* C13: a request carrying the cursor of the batch that was in flight when
\* the task was cancelled is never sent.
C13_CancelledBatchNotAcked ==
    cancelReq # 0 => \A i \in Acks : requests[i].cursor # cancelReq

\* run() has ended: it returned, or an exception has left it.
RunEnded == loop = "returned" \/ (loop = "exited" /\ exc # "none")

\* C18: whenever run() has ended, by return or by an error of the stream or
\* of update_graph, the graph-store connection and the RPC channel are closed.
C18_BothClosedAtEnd == RunEnded => (~gdsOpen /\ ~channelOpen)

\* The cursors of the acknowledgements sent, in the order they were sent.
AckCursors == [i \in 1..(Len(requests) - 1) |-> requests[i + 1].cursor]

\* C19: the batches reach the caller in the order of the replies and one at
\* a time: the batch the caller holds is the one after the last it finished.
\* The cursors sent, followed by those waiting in the queue, are the cursors
\* of the finished batches in the order they were finished, each once; so
\* the acknowledgements sent never outnumber the finished batches.
C19_StreamOrdering ==
    /\ nread <= nreplies
    /\ cur # 0 => (cur = nread /\ cur = resumed + 1)
    /\ cur = 0 => nread = resumed
    /\ requests # <<>> => AckCursors \o queue = [k \in 1..resumed |-> k]
    /\ requests = <<>> => queue = [k \in 1..resumed |-> k]
    /\ Cardinality(Acks) <= resumed
    /\ \A i \in Acks : \A j \in Acks : i < j => requests[i].cursor < requests[j].cursor

C19_Witness ==
    /\ resumed = 3
    /\ Len(requests) = 3
    /\ queue = <<3>>
    /\ ~lockstep
    /\ graph # EmptyGraph

\* C20: the cursors taken from a reply and not yet sent, which wait in the
\* queue of the request sender, are never more than one.
C20_OneInFlightCursor == Len(queue) <= 1

\* C8: after the update_graph call of the loop, every primary genre of an
\* album of the batch has a GENRE relationship of weight 3, every secondary
\* genre one of weight 1, and no GENRE relationship has another weight.
C8_StoredGenreWeights ==
    ug.state = "done" =>
        /\ \A e \in Entries :
              /\ \A g \in Range(e.album.primary_genres) :
                    BagIn(GenreRel(e.file_name, g, DbPrimaryGenreWeight), graph.edges)
              /\ \A g \in Range(e.album.secondary_genres) :
                    BagIn(GenreRel(e.file_name, g, SecondaryGenreWeight), graph.edges)
        /\ \A r \in BagToSet(graph.edges) :
              r.type = "GENRE" => r.weight \in {DbPrimaryGenreWeight, SecondaryGenreWeight}

\* The step that lengthens the queue is the one in which the caller resumes
\* the iterator: the cursor put is that of the batch the caller held.
HandedAtResume ==
    Len(queue') > Len(queue) =>
        /\ loop \in {"body", "updating"}
        /\ loop' = "next"
        /\ resumed' = resumed + 1
        /\ queue' = Append(queue, cur)

\* update_graph has returned for the batch the caller holds, the caller has
\* not yet asked for the next batch, and its task has been cancelled.
CancelledAfterApply ==
    /\ loop = "updating"
    /\ ug.state = "done"
    /\ cancelReq = cur

----------------------------------------------------------------------------
(* Properties of the acknowledgement loop, checked under SpecLive          *)

\* The server has answered every request and waits for the next one, the
\* client waits for a reply, and the request sender has nothing to send.
AckDeadlock ==
    /\ nreplies >= Len(requests)
    /\ loop = "next"
    /\ nread = nreplies
    /\ sender # "first"
    /\ queue = <<>>

\* C23: the cursor of every batch handed to the caller is eventually sent
\* as an acknowledgement, and the loop never comes to a state where the
\* server waits for an acknowledgement while the client waits for a reply
\* with nothing to send.
C23_AckLoopLive ==
    /\ []~AckDeadlock
    /\ \A k \in 1..MaxReplies :
          (nread >= k) ~> (\E i \in Acks : requests[i].cursor = k)

C23_Witness ==
    /\ resumed = MaxReplies
    /\ Len(requests) = MaxReplies + 1
    /\ requests[Len(requests)].cursor = MaxReplies
    /\ queue = <<>>
    /\ graph # EmptyGraph

====
